---- MODULE Spec2Model ----
(***************************************************************************)
(* A model of becquerel/tools/isotope.py: the isotope identifier parser,   *)
(* the Isotope constructor and formatter, IsotopeQuantity and              *)
(* NeutronIrradiation.                                                     *)
(*                                                                         *)
(* A Python str is a sequence of one-character strings.  A call's outcome  *)
(* is a record: [kind |-> "ok", val |-> v] for a returned value, or        *)
(* [kind |-> E] for a raised exception of class E.                         *)
(***************************************************************************)
EXTENDS Integers, Sequences, FiniteSets, TLC

VARIABLES input, call, ret, iso, qty, irr

vars == <<input, call, ret, iso, qty, irr>>

Ok(v) == [kind |-> "ok", val |-> v]

Err(k) == [kind |-> k]

IsOk(r) == r.kind = "ok"

The(S) == CHOOSE x \in S : TRUE

\* Body applied to the value of v, which is evaluated once: a local variable
Bind(v, Body(_)) == The({Body(x) : x \in {v}})

(***************************************************************************)
(* Characters and the str methods the code uses.                           *)
(***************************************************************************)
UpperChars ==
  <<"A","B","C","D","E","F","G","H","I","J","K","L","M",
    "N","O","P","Q","R","S","T","U","V","W","X","Y","Z">>

LowerChars ==
  <<"a","b","c","d","e","f","g","h","i","j","k","l","m",
    "n","o","p","q","r","s","t","u","v","w","x","y","z">>

DigitChars == <<"0","1","2","3","4","5","6","7","8","9">>

Range(s) == {s[i] : i \in DOMAIN s}

IndexOf(s, c) == CHOOSE i \in DOMAIN s : s[i] = c

\* str.isalpha() / str.isdigit() of one character
CharIsAlpha(c) == c \in Range(UpperChars) \cup Range(LowerChars)

CharIsDigit(c) == c \in Range(DigitChars)

\* str.isalpha(): non-empty and every character alphabetic
isalpha(s) == Len(s) > 0 /\ \A i \in DOMAIN s : CharIsAlpha(s[i])

\* str.isdigit(): non-empty and every character a digit
isdigit(s) == Len(s) > 0 /\ \A i \in DOMAIN s : CharIsDigit(s[i])

CharLower(c) ==
  IF c \in Range(UpperChars) THEN LowerChars[IndexOf(UpperChars, c)] ELSE c

\* str.lower()
lower(s) == [i \in DOMAIN s |-> CharLower(s[i])]

\* c in s
Contains(s, c) == \E i \in DOMAIN s : s[i] = c

\* s.split(c): the pieces of s between the occurrences of c
RECURSIVE split(_, _)
split(s, c) ==
  Bind(s, LAMBDA str :
    IF ~Contains(str, c) THEN <<str>>
    ELSE Bind(CHOOSE k \in DOMAIN str :
                str[k] = c /\ \A j \in 1..(k - 1) : str[j] # c,
              LAMBDA i : <<SubSeq(str, 1, i - 1)>>
                         \o split(SubSeq(str, i + 1, Len(str)), c)))

\* int(s) for a str of this alphabet: the decimal value, or ValueError
RECURSIVE DecimalValue(_)
DecimalValue(s) ==
  Bind(s, LAMBDA str :
    IF Len(str) = 0 THEN 0
    ELSE 10 * DecimalValue(SubSeq(str, 1, Len(str) - 1))
         + (IndexOf(DigitChars, str[Len(str)]) - 1))

int_str(s) ==
  Bind(s, LAMBDA str :
    IF isdigit(str) THEN Ok(DecimalValue(str)) ELSE Err("ValueError"))

\* '{}'.format(n) for an integer n >= 0: its decimal digits
RECURSIVE format_int(_)
format_int(n) ==
  IF n < 10 THEN <<DigitChars[n + 1]>>
  ELSE format_int(n \div 10) \o <<DigitChars[(n % 10) + 1]>>

(***************************************************************************)
(* The Element collaborator (becquerel/tools/element.py): a lookup by      *)
(* symbol or name, case-insensitive, or by atomic number.  The table is a  *)
(* part of the periodic table that holds every element some substring of   *)
(* the model's inputs names.                                               *)
(***************************************************************************)
ElementTable ==
  {
    [Z |-> 1, symbol |-> <<"H">>,
     name |-> <<"H","y","d","r","o","g","e","n">>],
    [Z |-> 6, symbol |-> <<"C">>,
     name |-> <<"C","a","r","b","o","n">>],
    [Z |-> 7, symbol |-> <<"N">>,
     name |-> <<"N","i","t","r","o","g","e","n">>],
    [Z |-> 8, symbol |-> <<"O">>,
     name |-> <<"O","x","y","g","e","n">>],
    [Z |-> 9, symbol |-> <<"F">>,
     name |-> <<"F","l","u","o","r","i","n","e">>],
    [Z |-> 10, symbol |-> <<"N","e">>,
     name |-> <<"N","e","o","n">>],
    [Z |-> 27, symbol |-> <<"C","o">>,
     name |-> <<"C","o","b","a","l","t">>],
    [Z |-> 43, symbol |-> <<"T","c">>,
     name |-> <<"T","e","c","h","n","e","t","i","u","m">>],
    [Z |-> 49, symbol |-> <<"I","n">>,
     name |-> <<"I","n","d","i","u","m">>],
    [Z |-> 50, symbol |-> <<"S","n">>,
     name |-> <<"T","i","n">>],
    [Z |-> 53, symbol |-> <<"I">>,
     name |-> <<"I","o","d","i","n","e">>],
    [Z |-> 72, symbol |-> <<"H","f">>,
     name |-> <<"H","a","f","n","i","u","m">>],
    [Z |-> 92, symbol |-> <<"U">>,
     name |-> <<"U","r","a","n","i","u","m">>]
  }

\* Arguments carry their Python type: a str, an int, None, or a float.
PyStr(s) == [t |-> "str", s |-> s, n |-> 0]

PyInt(n) == [t |-> "int", s |-> <<>>, n |-> n]

PyNone == [t |-> "none", s |-> <<>>, n |-> 0]

PyFloat == [t |-> "float", s |-> <<>>, n |-> 0]

\* element.Element(arg): the element, or ElementError
Element(arg) ==
  Bind(arg, LAMBDA a :
    Bind(IF a.t = "str"
         THEN {e \in ElementTable :
                 lower(e.symbol) = lower(a.s) \/ lower(e.name) = lower(a.s)}
         ELSE IF a.t = "int" THEN {e \in ElementTable : e.Z = a.n}
         ELSE {},
         LAMBDA hits :
           IF hits = {} THEN Err("ElementError") ELSE Ok(The(hits))))

(***************************************************************************)
(* _split_element_mass                                                     *)
(***************************************************************************)
\* arg[:j] and arg[j:]
Prefix(arg, j) == SubSeq(arg, 1, j)

Suffix(arg, j) == SubSeq(arg, j + 1, Len(arg))

NoSplit == [found |-> FALSE, elem |-> <<>>, mass |-> <<>>, token |-> <<>>]

\* One pass of the loop over zip(part1, part2) at split point j: the
\* (p_element, p_mass) pair the two tests choose, if any
SplitAt(arg, j) ==
  Bind(<<Suffix(arg, j), Prefix(arg, j)>>, LAMBDA p :
    IF CharIsDigit(p[1][1]) /\ CharIsAlpha(p[2][1])
    THEN [found |-> TRUE, p_element |-> p[2], p_mass |-> p[1]]
    ELSE IF CharIsAlpha(p[1][1]) /\ CharIsDigit(p[2][1])
    THEN [found |-> TRUE, p_element |-> p[1], p_mass |-> p[2]]
    ELSE [found |-> FALSE, p_element |-> <<>>, p_mass |-> <<>>])

\* What the loop appends to element_ids / mass_isomers at j, if anything:
\* elem.symbol and p_mass (token keeps the alphabetic run p_element as it
\* is written in the input)
AppendedAt(arg, j) ==
  Bind(SplitAt(arg, j), LAMBDA sp :
    IF ~sp.found THEN NoSplit
    ELSE Bind(Element(PyStr(sp.p_element)), LAMBDA elem :
           IF ~IsOk(elem) THEN NoSplit
           ELSE [found |-> TRUE, elem |-> elem.val.symbol,
                 mass |-> sp.p_mass, token |-> sp.p_element]))

\* zip(element_ids, mass_isomers) after the loop, in loop order
Candidates(arg) ==
  IF Len(arg) < 2 THEN <<>>
  ELSE SelectSeq([j \in 1..(Len(arg) - 1) |-> AppendedAt(arg, j)],
                 LAMBDA c : c.found)

\* "if multiple element IDs were found, choose the longest": the loop
\* that keeps a candidate when len(elem) > len(element_id)
RECURSIVE ChooseLongest(_, _, _)
ChooseLongest(cands, k, best) ==
  IF k > Len(cands) THEN best
  ELSE Bind(IF Len(cands[k].elem) > Len(best.elem) THEN cands[k] ELSE best,
            LAMBDA b : ChooseLongest(cands, k + 1, b))

\* The branch for a string with a hyphen
SplitHyphen(arg) ==
  Bind(split(arg, "-"), LAMBDA tokens :
    IF Len(tokens) # 2 THEN Err("IsotopeError")
    ELSE IF isalpha(tokens[1])
    THEN IF Len(tokens[2]) = 0 THEN Err("IndexError")
         ELSE IF CharIsDigit(tokens[2][1]) THEN Ok(<<tokens[1], tokens[2]>>)
         ELSE Err("IsotopeError")
    ELSE IF Len(tokens[1]) = 0 THEN Err("IndexError")
    ELSE IF CharIsDigit(tokens[1][1]) /\ isalpha(tokens[2])
    THEN Ok(<<tokens[2], tokens[1]>>)
    ELSE Err("IsotopeError"))

\* The branch for a string without a hyphen
SplitNoHyphen(arg) ==
  Bind(Candidates(arg), LAMBDA cands :
    IF Len(cands) = 0 THEN Err("IsotopeError")
    ELSE Bind(ChooseLongest(cands, 1, NoSplit), LAMBDA best :
           Ok(<<best.elem, best.mass>>)))

_split_element_mass(arg) ==
  Bind(IF Contains(arg, "-") THEN SplitHyphen(arg) ELSE SplitNoHyphen(arg),
       LAMBDA r :
         IF ~IsOk(r) THEN r
         ELSE IF ~IsOk(Element(PyStr(r.val[1]))) THEN Err("IsotopeError")
         ELSE r)

(***************************************************************************)
(* _split_mass_isomer and parse_isotope                                    *)
(***************************************************************************)
_split_mass_isomer(arg) ==
  IF Contains(lower(arg), "m")
  THEN Bind(split(lower(arg), "m"), LAMBDA tokens :
         IF Len(tokens) # 2 THEN Err("IsotopeError")
         ELSE IF ~IsOk(int_str(tokens[1])) THEN Err("IsotopeError")
         ELSE IF Len(tokens[2]) > 0 /\ ~isdigit(tokens[2])
         THEN Err("IsotopeError")
         ELSE Ok(<<int_str(tokens[1]).val, <<"m">> \o tokens[2]>>))
  ELSE IF ~IsOk(int_str(arg)) THEN Err("IsotopeError")
       ELSE Ok(<<int_str(arg).val, <<>>>>)

\* (element_id, mass_number, isomer_level), or the exception raised
parse_isotope(arg) ==
  Bind(_split_element_mass(arg), LAMBDA em :
    IF ~IsOk(em) THEN em
    ELSE Bind(_split_mass_isomer(em.val[2]), LAMBDA mi :
           IF ~IsOk(mi) THEN mi
           ELSE Ok(<<em.val[1], mi.val[1], mi.val[2]>>)))

(***************************************************************************)
(* class Isotope                                                           *)
(***************************************************************************)
\* Isotope._init_A: self.A, or the exception raised
_init_A(arg) ==
  Bind(IF arg.t = "int" THEN Ok(arg.n)
       ELSE IF arg.t = "str" THEN int_str(arg.s)
       ELSE Err("TypeError"),
       LAMBDA a :
         IF a.kind = "ValueError" THEN Err("IsotopeError")
         ELSE IF ~IsOk(a) THEN a
         ELSE IF a.val < 1 THEN Err("IsotopeError")
         ELSE a)

\* Isotope._init_m: (self.m, self.M), or the exception raised
_init_m(arg) ==
  IF \/ arg.t = "none"
     \/ arg.t = "str" /\ arg.s = <<>>
     \/ arg.t = "int" /\ arg.n = 0
  THEN Ok([m |-> <<>>, M |-> 0])
  ELSE IF arg.t = "int"
  THEN IF arg.n = 1 THEN Ok([m |-> <<"m">>, M |-> 1])
       ELSE IF arg.n >= 2
       THEN Ok([m |-> <<"m">> \o format_int(arg.n), M |-> arg.n])
       ELSE Err("IsotopeError")
  ELSE IF arg.t = "str"
  THEN Bind(lower(arg.s), LAMBDA m :
         IF m[1] # "m" THEN Err("IsotopeError")
         ELSE IF Len(m) > 1
         THEN IF ~isdigit(Tail(m)) THEN Err("IsotopeError")
              ELSE Ok([m |-> m, M |-> DecimalValue(Tail(m))])
         ELSE Ok([m |-> m, M |-> 1]))
  ELSE Err("IsotopeError")

\* The rest of __init__ once the element, A and m are set: N = A - Z is
\* checked last
IsotopeOf(el, a, mm) ==
  IF ~IsOk(a) THEN a
  ELSE IF ~IsOk(mm) THEN mm
  ELSE IF a.val - el.Z < 0 THEN Err("IsotopeError")
  ELSE Ok([symbol |-> el.symbol, name |-> el.name, Z |-> el.Z,
           A |-> a.val, N |-> a.val - el.Z, M |-> mm.val.M, m |-> mm.val.m])

\* Isotope.__init__(*args): the constructed Isotope, or the exception raised
Isotope(args) ==
  IF Len(args) = 1
  THEN IF args[1].t # "str" THEN Err("IsotopeError")
       ELSE Bind(parse_isotope(args[1].s), LAMBDA p :
              IF ~IsOk(p) THEN p
              ELSE Bind(<<Element(PyStr(p.val[1])), _init_A(PyInt(p.val[2])),
                          _init_m(PyStr(p.val[3]))>>,
                        LAMBDA r :
                          IF ~IsOk(r[1]) THEN r[1]
                          ELSE IsotopeOf(r[1].val, r[2], r[3])))
  ELSE IF Len(args) = 2 \/ Len(args) = 3
  THEN Bind(<<Element(args[1]), _init_A(args[2]),
              IF Len(args) = 3 THEN _init_m(args[3])
              ELSE Ok([m |-> <<>>, M |-> 0])>>,
            LAMBDA r :
              IF ~IsOk(r[1]) THEN Err("IsotopeError")
              ELSE IsotopeOf(r[1].val, r[2], r[3]))
  ELSE Err("IsotopeError")

\* str.replace(old, new): every occurrence, left to right
RECURSIVE replace(_, _, _)
replace(s, old, new) ==
  Bind(s, LAMBDA str :
    IF Len(str) < Len(old) THEN str
    ELSE IF SubSeq(str, 1, Len(old)) = old
    THEN new \o replace(SubSeq(str, Len(old) + 1, Len(str)), old, new)
    ELSE <<str[1]>> \o replace(Tail(str), old, new))

\* A formatter that forgets the isomer code: '%m' is replaced by ''
format_without_isomer(self, formatstr) ==
  Bind(IF Len(formatstr) = 0 THEN <<"%","s","-","%","a","%","m">>
       ELSE formatstr, LAMBDA str0 :
  Bind(replace(str0, <<"%","s">>, self.symbol), LAMBDA str1 :
  Bind(replace(str1, <<"%","a">>, format_int(self.A)), LAMBDA str4 :
    replace(str4, <<"%","m">>, <<>>))))

\* Isotope.__format__
__format__(self, formatstr) ==
  Bind(IF Len(formatstr) = 0 THEN <<"%","s","-","%","a","%","m">>
       ELSE formatstr, LAMBDA str0 :
  Bind(replace(str0, <<"%","s">>, self.symbol), LAMBDA str1 :
  Bind(replace(str1, <<"%","n">>, self.name), LAMBDA str2 :
  Bind(replace(str2, <<"%","z">>, format_int(self.Z)), LAMBDA str3 :
  Bind(replace(str3, <<"%","a">>, format_int(self.A)), LAMBDA str4 :
    replace(str4, <<"%","m">>, self.m))))))

\* Isotope.__str__: '{}'.format(self)
__str__(self) == __format__(self, <<>>)

\* Element.__eq__ of the collaborator: the same element
ElementEq(self, other) ==
  self.symbol = other.symbol /\ self.name = other.name /\ self.Z = other.Z

\* Isotope.__eq__ for two Isotopes
__eq__(self, other) ==
  ElementEq(self, other) /\ self.A = other.A /\ self.Z = other.Z
  /\ self.M = other.M

(***************************************************************************)
(* The inputs of the parser and of the Isotope constructor.                *)
(***************************************************************************)
\* Element tokens: symbols and names in several letter cases, an unknown
\* symbol and the empty token
ElemTokens ==
  { <<"U">>,
    <<"u">>,
    <<"T","c">>,
    <<"T","C">>,
    <<"H","f">>,
    <<"H","F">>,
    <<"C","o">>,
    <<"T","i","n">>,
    <<"I","o","d","i","n","e">>,
    <<"i","o","d","i","n","e">>,
    <<"X","x">>,
    <<>> }

\* Mass/isomer tokens, well-formed and malformed
MassTokens ==
  { <<"2","3","8">>,
    <<"9","9","m">>,
    <<"9","9","M">>,
    <<"9","9","m","1">>,
    <<"6","0","m","0">>,
    <<"1","7","8","m","2">>,
    <<"1","7","8","M","2">>,
    <<"1","7","8","m","0","2">>,
    <<"0">>,
    <<"9">>,
    <<"9","m","m">>,
    <<"9","m","2","x">>,
    <<"m","2">>,
    <<"x","9">>,
    <<>> }

\* Strings that are not one element token and one mass token
OtherStrings ==
  { <<"U","-","2","-","3","8">>,
    <<"T","c","-","-","9","9","m">>,
    <<"-">>,
    <<"U">>,
    <<"9">> }

\* 'EX', 'XE', 'E-X' and 'X-E' for every element token E and mass token X
StrInputs ==
  UNION {{E \o X, X \o E, E \o <<"-">> \o X, X \o <<"-">> \o E} :
           <<E, X>> \in ElemTokens \X MassTokens}
  \cup OtherStrings

\* Element identifiers, mass numbers and isomer specifiers of Isotope(e, A[, m])
ElemArgs ==
  {PyStr(<<"T","c">>), PyStr(<<"h","a","f","n","i","u","m">>), PyInt(92),
   PyInt(27), PyStr(<<"X","x">>), PyInt(0)}

MassArgs ==
  {PyInt(99), PyInt(178), PyInt(238), PyInt(60), PyInt(0), PyInt(-1),
   PyStr(<<"9","9">>), PyStr(<<"9","9","m">>)}

IsomerArgs ==
  {PyNone, PyStr(<<>>), PyInt(0), PyInt(1), PyInt(2), PyInt(12), PyInt(-1),
   PyStr(<<"m">>), PyStr(<<"M">>), PyStr(<<"m","1">>), PyStr(<<"m","0">>),
   PyStr(<<"M","2">>), PyStr(<<"m","0","2">>), PyStr(<<"2">>),
   PyStr(<<"m","x">>), PyFloat}

CtorInputs ==
  {<<PyStr(s)>> : s \in StrInputs}
  \cup {<<PyInt(92)>>, <<>>}
  \cup (ElemArgs \X MassArgs)
  \cup (ElemArgs \X MassArgs \X IsomerArgs)
  \cup {<<PyStr(<<"U">>), PyInt(238), PyInt(0), PyInt(0)>>}

(***************************************************************************)
(* The state: the arguments of the call under way (input), the last       *)
(* operation (call) and its outcome (ret), and the objects constructed so  *)
(* far: an Isotope, an IsotopeQuantity and a NeutronIrradiation.           *)
(***************************************************************************)
NoRet == [kind |-> "none"]

NoIso == [kind |-> "none"]

NoQty == [kind |-> "none"]

NoIrr == [kind |-> "none"]

Init ==
  /\ input \in CtorInputs
  /\ call = "none"
  /\ ret = NoRet
  /\ iso = NoIso
  /\ qty = NoQty
  /\ irr = NoIrr

\* parse_isotope(arg) on a string
ParseIsotope ==
  /\ call = "none"
  /\ Len(input) = 1 /\ input[1].t = "str"
  /\ call' = "parse_isotope"
  /\ ret' = parse_isotope(input[1].s)
  /\ UNCHANGED <<input, iso, qty, irr>>

\* Isotope(*args)
NewIsotope ==
  /\ call = "none"
  /\ call' = "Isotope"
  /\ ret' = Isotope(input)
  /\ iso' = IF IsOk(ret') THEN ret'.val ELSE iso
  /\ UNCHANGED <<input, qty, irr>>

\* str(iso) of the Isotope just constructed
Str ==
  /\ call = "Isotope" /\ IsOk(ret)
  /\ call' = "str"
  /\ ret' = Ok(__str__(iso))
  /\ UNCHANGED <<input, iso, qty, irr>>

\* Isotope(str(iso)): a second Isotope from the string just rendered
Reparse ==
  /\ call = "str"
  /\ call' = "reparse"
  /\ ret' = Isotope(<<PyStr(ret.val)>>)
  /\ UNCHANGED <<input, iso, qty, irr>>

Next == ParseIsotope \/ NewIsotope \/ Str \/ Reparse

Spec == Init /\ [][Next]_vars

(***************************************************************************)
(* Numbers.  A Python float is the exact value (n / d) * 10^e * ln(2)^l,   *)
(* kept in lowest terms with n and d free of the factor 5, so that equal   *)
(* values are equal records.  d = 0 stands for the IEEE values numpy       *)
(* yields on a division by zero: inf (n = 1), -inf (n = -1), nan (n = 0).  *)
(***************************************************************************)
Abs(x) == IF x < 0 THEN -x ELSE x

RECURSIVE Gcd(_, _)
Gcd(a, b) == IF b = 0 THEN a ELSE Gcd(b, a % b)

\* n / d in lowest terms, d > 0
Reduce(x) ==
  Bind(Gcd(Abs(x.n), Abs(x.d)), LAMBDA g :
    [n |-> (IF x.d < 0 THEN -x.n ELSE x.n) \div g, d |-> Abs(x.d) \div g,
     e |-> x.e, l |-> x.l])

\* The factors 5 of n and of d moved into the power of ten
RECURSIVE Strip5(_)
Strip5(x) ==
  IF x.n % 5 = 0
  THEN Strip5([n |-> x.n \div 5, d |-> x.d * 2, e |-> x.e + 1, l |-> x.l])
  ELSE IF x.d % 5 = 0
  THEN Strip5([n |-> x.n * 2, d |-> x.d \div 5, e |-> x.e - 1, l |-> x.l])
  ELSE x

Zero == [n |-> 0, d |-> 1, e |-> 0, l |-> 0]

PosInf == [n |-> 1, d |-> 0, e |-> 0, l |-> 0]

NegInf == [n |-> -1, d |-> 0, e |-> 0, l |-> 0]

NaN == [n |-> 0, d |-> 0, e |-> 0, l |-> 0]

Num(n, d, e, l) ==
  IF n = 0 THEN Zero
  ELSE Bind(Reduce([n |-> n, d |-> d, e |-> e, l |-> l]), LAMBDA r :
         Bind(Strip5(r), LAMBDA s : Reduce(s)))

\* float(i) of an integer i
float(i) == Num(i, 1, 0, 0)

One == float(1)

IsNaN(x) == x.d = 0 /\ x.n = 0

\* x < 0, x > 0, x >= 0 as Python compares floats (all false of nan)
Negative(x) == x.n < 0

Positive(x) == x.n > 0

NonNegative(x) == x.n >= 0 /\ ~IsNaN(x)

\* The greatest common divisor of |a| and |b|, 1 when both are 0
Common(a, b) == Bind(Gcd(Abs(a), Abs(b)), LAMBDA g : IF g = 0 THEN 1 ELSE g)

\* x * y, the common factors cancelled before the products are formed
Mul(x, y) ==
  Bind(<<x, y, Common(x.n, y.d), Common(y.n, x.d)>>, LAMBDA p :
    Num((p[1].n \div p[3]) * (p[2].n \div p[4]),
        (p[1].d \div p[4]) * (p[2].d \div p[3]),
        p[1].e + p[2].e, p[1].l + p[2].l))

\* x / y for y # 0
Div(x, y) ==
  Mul(x, [n |-> IF y.n < 0 THEN -y.d ELSE y.d, d |-> Abs(y.n),
          e |-> -y.e, l |-> -y.l])

\* x / y as numpy divides by a float64: inf or nan when y = 0
NpDiv(x, y) ==
  IF y.n # 0 THEN Div(x, y)
  ELSE IF x.n > 0 THEN PosInf
  ELSE IF x.n < 0 THEN NegInf
  ELSE NaN

RECURSIVE IntPow(_, _)
IntPow(b, k) == IF k = 0 THEN 1 ELSE b * IntPow(b, k - 1)

\* x - y for two plain numbers (no ln(2) factor)
Sub(x, y) ==
  Bind(<<x, y, IF x.e < y.e THEN x.e ELSE y.e>>, LAMBDA p :
    Num(p[1].n * IntPow(10, p[1].e - p[3]) * p[2].d
          - p[2].n * IntPow(10, p[2].e - p[3]) * p[1].d,
        p[1].d * p[2].d, p[3], 0))

\* 2 ** k for an integer k
Pow2(k) == IF k >= 0 THEN Num(IntPow(2, k), 1, 0, 0) ELSE Num(1, IntPow(2, -k), 0, 0)

\* The most halvings a target of time_when is away from the reference
MaxHalvings == 3

\* The exponents of the powers of two the quantities of the model meet
Log2Range == -(MaxHalvings + 2)..(MaxHalvings + 2)

\* Whether x is 2 ** k for an integer k, and that k (np.log2(x))
IsPow2(x) == \E k \in Log2Range : x = Pow2(k)

Log2(x) == CHOOSE k \in Log2Range : x = Pow2(k)

\* np.exp(x) for x = k * ln(2), k an integer: 2 ** k
Exp(x) == IF x.n = 0 THEN One ELSE Pow2(x.n * IntPow(10, x.e))

\* UCI_TO_BQ = 3.7e4 and N_AV = 6.022141e23
UCI_TO_BQ == Num(37, 1, 3, 0)

N_AV == Num(6022141, 1, 17, 0)

\* barns * 1.0e-24
BarnsToCm2 == Num(1, 1, -24, 0)

(***************************************************************************)
(* The decay data of an Isotope (halflife in seconds, decay constant       *)
(* ln(2) / halflife), which the Isotope takes from the data of its         *)
(* collaborator.  decay_const is a Python float.                           *)
(***************************************************************************)
Infinite == [fin |-> FALSE, s |-> 0]

Seconds(s) == [fin |-> TRUE, s |-> s]

\* Co-60 and every isomer decay; the ground states of the table are stable
halflife(isotope) ==
  IF isotope.symbol = <<"C","o">> /\ isotope.A = 60 THEN Seconds(2)
  ELSE IF isotope.M >= 1 THEN Seconds(4)
  ELSE Infinite

decay_const(isotope) ==
  IF halflife(isotope).fin THEN Num(1, halflife(isotope).s, 0, 1) ELSE Zero

\* The Isotope with its halflife and decay_const attributes
WithDecayData(isotope) ==
  [symbol |-> isotope.symbol, name |-> isotope.name, Z |-> isotope.Z,
   A |-> isotope.A, N |-> isotope.N, M |-> isotope.M, m |-> isotope.m,
   halflife |-> halflife(isotope), decay_const |-> decay_const(isotope)]

(***************************************************************************)
(* class IsotopeQuantity.  kwargs is a function from the keys supplied to  *)
(* their values.                                                           *)
(***************************************************************************)
\* float(kwargs[k]) for every key supplied with an integer
FloatKwargs(kwargs) == [k \in DOMAIN kwargs |-> float(kwargs[k])]

\* IsotopeQuantity._check_positive_qty
_check_positive_qty(val) ==
  IF Negative(val) THEN Err("ValueError") ELSE Ok(val)

\* The value of a checked quantity scaled by the factor of its unit
Scaled(checked, factor) ==
  IF ~IsOk(checked) THEN checked ELSE Ok(Mul(checked.val, factor))

\* IsotopeQuantity._atoms_from_kwargs, the values being floats
_atoms_from_kwargs(self, kwargs) ==
  IF "atoms" \in DOMAIN kwargs
  THEN _check_positive_qty(kwargs["atoms"])
  ELSE IF "g" \in DOMAIN kwargs
  THEN Scaled(_check_positive_qty(kwargs["g"]),
              Mul(Div(One, float(self.isotope.A)), N_AV))
  ELSE IF "bq" \in DOMAIN kwargs /\ Positive(self.decay_const)
  THEN Scaled(_check_positive_qty(kwargs["bq"]), Div(One, self.decay_const))
  ELSE IF "uci" \in DOMAIN kwargs /\ Positive(self.decay_const)
  THEN Scaled(_check_positive_qty(kwargs["uci"]),
              Div(UCI_TO_BQ, self.decay_const))
  ELSE IF "bq" \in DOMAIN kwargs \/ "uci" \in DOMAIN kwargs
  THEN Err("IsotopeError")
  ELSE Err("IsotopeError")

\* datetime.datetime.now(), in seconds
Now == 4

\* IsotopeQuantity._init_date: the reference date
_init_date(date) == IF date.t = "none" THEN Now ELSE date.n

\* The object after _init_isotope, _init_date and creation_date are set
QuantityBase(isotope, date, creation_date) ==
  [isotope |-> isotope, halflife |-> isotope.halflife,
   decay_const |-> isotope.decay_const, ref_date |-> _init_date(date),
   creation_date |-> creation_date, ref_atoms |-> Zero]

\* IsotopeQuantity.__init__: the quantity, or the exception raised
IsotopeQuantity(isotope, date, creation_date, kwargs) ==
  Bind(QuantityBase(isotope, date, creation_date), LAMBDA self :
    Bind(_atoms_from_kwargs(self, kwargs), LAMBDA atoms :
      IF ~IsOk(atoms) THEN atoms
      ELSE Ok([self EXCEPT !.ref_atoms = atoms.val])))

\* Whether 2 ** (-dt / halflife) is a power of two the model can write
ExactDecay(self, dt) ==
  IF self.halflife.fin THEN dt % self.halflife.s = 0 ELSE TRUE

\* 2 ** (-dt / self.halflife)
DecayFactor(self, dt) ==
  IF self.halflife.fin THEN Pow2(-(dt \div self.halflife.s)) ELSE One

\* IsotopeQuantity.atoms_at
atoms_at(self, date) ==
  IF date - self.ref_date < 0 /\ self.creation_date THEN Err("IsotopeError")
  ELSE Ok(Mul(self.ref_atoms, DecayFactor(self, date - self.ref_date)))

\* IsotopeQuantity.bq_at
bq_at(self, date) == Scaled(atoms_at(self, date), self.decay_const)

\* A returned date, or None
SomeDate(t) == [none |-> FALSE, t |-> t]

NoDate == [none |-> TRUE, t |-> 0]

\* time_when without the minus sign of dt
TimeOfTargetUnsigned(self, target) ==
  IF self.ref_atoms.n = 0 THEN Err("ZeroDivisionError")
  ELSE IF target.n = 0 THEN Err("OverflowError")
  ELSE Bind(self.halflife.s * Log2(Div(target, self.ref_atoms)), LAMBDA dt :
         IF dt < 0 /\ self.creation_date THEN Ok(NoDate)
         ELSE Ok(SomeDate(self.ref_date + dt)))

\* The rest of time_when once target is known:
\*   dt = -self.halflife * np.log2(target / self.ref_atoms)
\* target / ref_atoms raises on ref_atoms = 0.0; log2(0.0) is -inf, and
\* timedelta(seconds=inf) raises OverflowError
TimeOfTarget(self, target) ==
  IF self.ref_atoms.n = 0 THEN Err("ZeroDivisionError")
  ELSE IF target.n = 0 THEN Err("OverflowError")
  ELSE Bind(-self.halflife.s * Log2(Div(target, self.ref_atoms)), LAMBDA dt :
         IF dt < 0 /\ self.creation_date THEN Ok(NoDate)
         ELSE Ok(SomeDate(self.ref_date + dt)))

\* IsotopeQuantity.time_when, the values of kwargs being floats
time_when(self, kwargs) ==
  IF ~self.halflife.fin THEN Err("IsotopeError")
  ELSE Bind(_atoms_from_kwargs(self, kwargs), LAMBDA target :
         IF ~IsOk(target) THEN target
         ELSE TimeOfTarget(self, target.val))

\* Whether time_when's logarithm is one the model can write
ExactTarget(self, kwargs) ==
  Bind(_atoms_from_kwargs(self, kwargs), LAMBDA target :
    \/ ~self.halflife.fin
    \/ ~IsOk(target)
    \/ self.ref_atoms.n = 0
    \/ target.val.n = 0
    \/ IsPow2(Div(target.val, self.ref_atoms)))

(***************************************************************************)
(* class NeutronIrradiation.  An optional argument or attribute is         *)
(* Some(v), or None.                                                       *)
(***************************************************************************)
Some(v) == [none |-> FALSE, v |-> v]

None == [none |-> TRUE]

\* NeutronIrradiation.__init__: the irradiation, or the exception raised
NeutronIrradiation(start_time, stop_time, n_cm2, n_cm2_s) ==
  IF stop_time < start_time THEN Err("ValueError")
  ELSE IF n_cm2.none = n_cm2_s.none THEN Err("ValueError")
  ELSE IF n_cm2.none
  THEN Ok([start_time |-> start_time, stop_time |-> stop_time,
           duration |-> stop_time - start_time,
           n_cm2_s |-> Some(float(n_cm2_s.v)),
           n_cm2 |-> Some(Mul(float(n_cm2_s.v), float(stop_time - start_time)))])
  ELSE Ok([start_time |-> start_time, stop_time |-> stop_time,
           duration |-> stop_time - start_time,
           n_cm2_s |-> None,
           n_cm2 |-> Some(float(n_cm2.v))])

\* 1 - np.exp(-activated_iso.decay_const * self.duration)
Buildup(self, activated_iso) ==
  Sub(One, Exp(Mul(float(-self.duration), activated_iso.decay_const)))

\* The forward calculation: the activated IsotopeQuantity
Forward(self, cross_section, initial_iso_q, activated_iso) ==
  Bind(atoms_at(initial_iso_q, self.stop_time), LAMBDA atoms :
    Bind(IF self.duration = 0
         THEN IF ~IsOk(atoms) THEN atoms
              ELSE Ok(Mul(Mul(Mul(self.n_cm2.v, cross_section), atoms.val),
                          activated_iso.decay_const))
         ELSE IF self.n_cm2_s.none THEN Err("TypeError")
         ELSE IF ~IsOk(atoms) THEN atoms
         ELSE Ok(Mul(Mul(Mul(self.n_cm2_s.v, cross_section), atoms.val),
                     Buildup(self, activated_iso))),
         LAMBDA activated_bq :
           IF ~IsOk(activated_bq) THEN activated_bq
           ELSE IsotopeQuantity(activated_iso, PyInt(self.stop_time), TRUE,
                                [bq |-> activated_bq.val])))

\* The backward calculation: the initial IsotopeQuantity.  The zero-duration
\* branch reads activated_iso.decay_coeff, an attribute no Isotope has.
Backward(self, cross_section, activated_iso_q, initial_iso, activated_iso) ==
  Bind(bq_at(activated_iso_q, self.stop_time), LAMBDA bq :
    Bind(IF ~IsOk(bq) THEN bq
         ELSE IF self.duration = 0 THEN Err("AttributeError")
         ELSE IF self.n_cm2_s.none THEN Err("TypeError")
         ELSE Ok(NpDiv(bq.val, Mul(Mul(self.n_cm2_s.v, cross_section),
                                   Buildup(self, activated_iso)))),
         LAMBDA initial_atoms :
           IF ~IsOk(initial_atoms) THEN initial_atoms
           ELSE IsotopeQuantity(initial_iso, PyInt(self.stop_time), TRUE,
                                [atoms |-> initial_atoms.val])))

\* The two isotopes after the defaults are filled in
InitialIso(initial_iso_q, initial_iso) ==
  IF initial_iso.none THEN initial_iso_q.v.isotope ELSE initial_iso.v

ActivatedIso(initial_iso, activated_iso_q, activated_iso) ==
  IF ~initial_iso.none /\ activated_iso.none THEN activated_iso_q.v.isotope
  ELSE activated_iso.v

\* NeutronIrradiation.activate: the IsotopeQuantity returned, or the
\* exception raised
activate(self, barns, initial_iso_q, initial_iso, activated_iso_q, activated_iso) ==
  IF initial_iso_q.none = activated_iso_q.none THEN Err("IsotopeError")
  ELSE IF ~initial_iso_q.none /\ activated_iso.none THEN Err("IsotopeError")
  ELSE IF ~activated_iso_q.none /\ initial_iso.none THEN Err("IsotopeError")
  ELSE IF InitialIso(initial_iso_q, initial_iso).halflife.fin
  THEN Err("NotImplementedError")
  ELSE IF activated_iso_q.none
  THEN Forward(self, Mul(float(barns), BarnsToCm2), initial_iso_q.v,
               ActivatedIso(initial_iso, activated_iso_q, activated_iso))
  ELSE Backward(self, Mul(float(barns), BarnsToCm2), activated_iso_q.v,
                InitialIso(initial_iso_q, initial_iso),
                ActivatedIso(initial_iso, activated_iso_q, activated_iso))

\* Whether every decay factor of the call is a power of two the model can
\* write
ExactActivation(self, quantity, isotopes) ==
  /\ IF quantity = NoQty THEN TRUE
     ELSE ExactDecay(quantity, self.stop_time - quantity.ref_date)
  /\ \A i \in isotopes :
       IF i.halflife.fin THEN self.duration % i.halflife.s = 0 ELSE TRUE

(***************************************************************************)
(* The inputs of the quantity operations.                                  *)
(***************************************************************************)
\* The most keys one quantity specification holds
MaxKeys == 2

Keys == {"atoms", "g", "bq", "uci"}

\* The amount a quantity is constructed with, in the unit of its key
Amount == IntPow(2, MaxHalvings)

NewValues == {-1, 0, Amount}

TargetValues == {-1, 0} \cup {IntPow(2, k) : k \in 0..(MaxHalvings + 1)}

KwargsOver(keysets, values) == UNION {[K -> values] : K \in keysets}

NewKwargs ==
  KwargsOver({K \in SUBSET Keys : Cardinality(K) <= MaxKeys}, NewValues)

TargetKwargs ==
  KwargsOver({K \in SUBSET Keys : Cardinality(K) = 1}, TargetValues)
  \cup NewKwargs

SampleIsotopes ==
  {WithDecayData(Isotope(args).val) :
     args \in {<<PyStr(<<"C","o">>), PyInt(59)>>,
               <<PyStr(<<"C","o">>), PyInt(60)>>,
               <<PyStr(<<"T","c","-","9","9","m">>)>>}}

Dates == {0, Now}

DateArgs == {PyNone} \cup {PyInt(d) : d \in Dates}

FluenceArgs == {None, Some(2)}

FluenceRateArgs == {None, Some(3)}

BarnsArgs == {1, -1}

(***************************************************************************)
(* The quantity operations: a caller constructs one IsotopeQuantity and    *)
(* one NeutronIrradiation and then calls one method.                       *)
(***************************************************************************)
InitQ ==
  /\ input = <<>>
  /\ call = "none"
  /\ ret = NoRet
  /\ iso = NoIso
  /\ qty = NoQty
  /\ irr = NoIrr

\* IsotopeQuantity(isotope, date, creation_date, **kwargs)
NewQuantity ==
  /\ call = "none"
  /\ \E isotope \in SampleIsotopes, date \in DateArgs,
        creation_date \in BOOLEAN, kwargs \in NewKwargs :
       /\ input' = [isotope |-> isotope, date |-> date,
                    creation_date |-> creation_date, kwargs |-> kwargs]
       /\ ret' = IsotopeQuantity(isotope, date, creation_date, FloatKwargs(kwargs))
  /\ call' = "IsotopeQuantity"
  /\ qty' = IF IsOk(ret') THEN ret'.val ELSE qty
  /\ UNCHANGED <<iso, irr>>

\* qty.time_when(**kwargs)
TimeWhen ==
  /\ call = "IsotopeQuantity" /\ IsOk(ret)
  /\ \E kwargs \in TargetKwargs :
       /\ ExactTarget(qty, FloatKwargs(kwargs))
       /\ input' = [kwargs |-> kwargs]
       /\ ret' = time_when(qty, FloatKwargs(kwargs))
  /\ call' = "time_when"
  /\ UNCHANGED <<iso, qty, irr>>

\* qty.atoms_at(date), a whole number of halflives away from the reference
AtomsAt ==
  /\ call = "IsotopeQuantity" /\ IsOk(ret)
  /\ \E k \in -1..MaxHalvings :
       LET date == qty.ref_date + k * (IF qty.halflife.fin THEN qty.halflife.s ELSE 1)
       IN  /\ input' = [date |-> date]
           /\ ret' = atoms_at(qty, date)
  /\ call' = "atoms_at"
  /\ UNCHANGED <<iso, qty, irr>>

\* NeutronIrradiation(start_time, stop_time, n_cm2, n_cm2_s)
NewIrradiation ==
  /\ call \in {"none", "IsotopeQuantity"}
  /\ \E start_time \in Dates, stop_time \in Dates,
        n_cm2 \in FluenceArgs, n_cm2_s \in FluenceRateArgs :
       /\ input' = [start_time |-> start_time, stop_time |-> stop_time,
                    n_cm2 |-> n_cm2, n_cm2_s |-> n_cm2_s]
       /\ ret' = NeutronIrradiation(start_time, stop_time, n_cm2, n_cm2_s)
  /\ call' = "NeutronIrradiation"
  /\ irr' = IF IsOk(ret') THEN ret'.val ELSE irr
  /\ UNCHANGED <<iso, qty>>

OptionalIsotopes == {None} \cup {Some(i) : i \in SampleIsotopes}

OptionalQty == {None} \cup (IF qty = NoQty THEN {} ELSE {Some(qty)})

\* irr.activate(barns, initial_iso_q, initial_iso, activated_iso_q, activated_iso)
Activate ==
  /\ call = "NeutronIrradiation" /\ IsOk(ret)
  /\ ExactActivation(irr, qty, SampleIsotopes)
  /\ \E barns \in BarnsArgs, initial_iso_q \in OptionalQty,
        initial_iso \in OptionalIsotopes, activated_iso_q \in OptionalQty,
        activated_iso \in OptionalIsotopes :
       /\ input' = [barns |-> barns, initial_iso_q |-> initial_iso_q,
                    initial_iso |-> initial_iso,
                    activated_iso_q |-> activated_iso_q,
                    activated_iso |-> activated_iso]
       /\ ret' = activate(irr, barns, initial_iso_q, initial_iso,
                          activated_iso_q, activated_iso)
  /\ call' = "activate"
  /\ UNCHANGED <<iso, qty, irr>>

NextQ == NewQuantity \/ TimeWhen \/ AtomsAt \/ NewIrradiation \/ Activate

SpecQ == InitQ /\ [][NextQ]_vars

(***************************************************************************)
(* The parser and Isotope properties.                                      *)
(***************************************************************************)
\* The resolving candidate whose alphabetic run, as written, is longest
LongestToken(cands) ==
  CHOOSE c \in Range(cands) : \A d \in Range(cands) : Len(d.token) <= Len(c.token)

\* The parse that goes on from the longest-token candidate
ParseByLongestToken(arg) ==
  Bind(Candidates(arg), LAMBDA cands :
    IF Len(cands) = 0 THEN Err("IsotopeError")
    ELSE Bind(LongestToken(cands), LAMBDA c :
           Bind(_split_mass_isomer(c.mass), LAMBDA mi :
             IF ~IsOk(mi) THEN mi
             ELSE Ok(<<c.elem, mi.val[1], mi.val[2]>>))))

\* C1: for a hyphen-free string, parse_isotope goes on with the resolving
\* candidate whose element token, as written in the input, is the longest;
\* it fails at the split only when no candidate resolves.
C1_LongestTokenWins ==
  (call = "parse_isotope" /\ ~Contains(input[1].s, "-"))
    => ret = ParseByLongestToken(input[1].s)

\* C2: parse_isotope returns a triple or raises IsotopeError, and nothing
\* else, for every input string.
C2_OnlyIsotopeError ==
  call = "parse_isotope" => ret.kind \in {"ok", "IsotopeError"}

\* The canonical isomer code of level M: '', 'm', or 'm' and M's digits
IsomerCode(M) ==
  IF M = 0 THEN <<>>
  ELSE IF M = 1 THEN <<"m">>
  ELSE <<"m">> \o format_int(M)

\* C3: every constructed Isotope has A >= 1, N = A - Z >= 0, M >= 0, and
\* its isomer code m is the canonical encoding of M.
C3_IsotopeInvariant ==
  (call = "Isotope" /\ IsOk(ret))
    => /\ ret.val.A >= 1
       /\ ret.val.N = ret.val.A - ret.val.Z
       /\ ret.val.N >= 0
       /\ ret.val.M >= 0
       /\ ret.val.m = IsomerCode(ret.val.M)

\* C4: Isotope(str(iso)) succeeds and has the symbol, A and M of iso, and
\* compares equal to iso, for every constructed Isotope iso.
C4_StrRoundTrip ==
  call = "reparse"
    => /\ IsOk(ret)
       /\ ret.val.symbol = iso.symbol
       /\ ret.val.A = iso.A
       /\ ret.val.M = iso.M
       /\ __eq__(ret.val, iso)

\* An isomer of level 2 or more, written with a non-canonical code, has
\* gone through str() and back
C4_Witness ==
  /\ call = "reparse"
  /\ IsOk(ret)
  /\ iso.M >= 2
  /\ iso.m # IsomerCode(iso.M)
  /\ ret.val.M = iso.M

(***************************************************************************)
(* The quantity and irradiation properties, checked under SpecQ.           *)
(***************************************************************************)
\* C5: a quantity specification holds exactly one of the keys atoms, g, bq,
\* uci: IsotopeQuantity construction and time_when fail when none is
\* supplied and when two or more are supplied together.
C5_ExactlyOneKey ==
  (call \in {"IsotopeQuantity", "time_when"}
     /\ Cardinality(DOMAIN input.kwargs) # 1)
    => ~IsOk(ret)

\* C6: constructing an IsotopeQuantity with a negative supplied atoms, g,
\* bq or uci value always fails, and every IsotopeQuantity that exists,
\* those returned by activate included, has ref_atoms >= 0.
C6_NegativeAlwaysFails ==
  /\ (call = "IsotopeQuantity"
        /\ \E k \in DOMAIN input.kwargs : input.kwargs[k] < 0)
       => ~IsOk(ret)
  /\ qty # NoQty => NonNegative(qty.ref_atoms)
  /\ (call = "activate" /\ IsOk(ret)) => NonNegative(ret.val.ref_atoms)

\* C7: construction of a quantity of a stable isotope fails when bq or uci
\* is supplied, and time_when on a quantity of a stable isotope fails with
\* IsotopeError whatever the target is, the target not being examined.
C7_StableOnlyAtomsOrGrams ==
  /\ (call = "IsotopeQuantity"
        /\ ~input.isotope.halflife.fin
        /\ DOMAIN input.kwargs \cap {"bq", "uci"} # {})
       => ~IsOk(ret)
  /\ (call = "time_when" /\ ~qty.halflife.fin) => ret = Err("IsotopeError")

\* time_when(atoms=target) was called on a quantity of finite halflife
AtomsTargetCall ==
  /\ call = "time_when"
  /\ qty.halflife.fin
  /\ DOMAIN input.kwargs = {"atoms"}

\* The target of the call is ref_atoms / 2 ** k
IsHalving(k) ==
  /\ qty.ref_atoms.n # 0
  /\ Div(float(input.kwargs.atoms), qty.ref_atoms) = Pow2(-k)

\* time_when returned ref_date + k halflives, where atoms_at is the target
ReturnsHalvingTime(k) ==
  /\ ret = Ok(SomeDate(qty.ref_date + k * qty.halflife.s))
  /\ atoms_at(qty, ret.val.t) = Ok(float(input.kwargs.atoms))

C9_FluenceDerived ==
  /\ (call = "NeutronIrradiation" /\ IsOk(ret))
       => input.n_cm2.none # input.n_cm2_s.none
  /\ irr # NoIrr
       => /\ irr.stop_time >= irr.start_time
          /\ irr.duration > 0
               => /\ ~irr.n_cm2.none
                  /\ ~irr.n_cm2_s.none
                  /\ irr.n_cm2.v = Mul(irr.n_cm2_s.v, float(irr.duration))
  /\ (call = "activate" /\ irr.duration > 0) => ret.kind # "TypeError"

\* The two argument shapes of activate: a quantity of one side and the
\* Isotope of the other side, nothing else
ForwardShape(args) ==
  /\ ~args.initial_iso_q.none /\ ~args.activated_iso.none
  /\ args.activated_iso_q.none /\ args.initial_iso.none

BackwardShape(args) ==
  /\ ~args.activated_iso_q.none /\ ~args.initial_iso.none
  /\ args.initial_iso_q.none /\ args.activated_iso.none

\* C10: activate fails for every combination of initial_iso_q, initial_iso,
\* activated_iso_q, activated_iso other than the two shapes, a quantity
\* given together with an explicit Isotope of its own side included.
C10_ExactlyTwoShapes ==
  (call = "activate" /\ ~ForwardShape(input) /\ ~BackwardShape(input))
    => ~IsOk(ret)

\* C11: activate fails whenever the quantity given as initial_iso_q is of
\* an isotope with finite halflife, or the initial Isotope given for a
\* backward calculation has finite halflife, whatever the other arguments.
C11_RadioactiveInitialFails ==
  (call = "activate"
     /\ \/ /\ ~input.initial_iso_q.none
           /\ input.initial_iso_q.v.halflife.fin
        \/ /\ ~input.activated_iso_q.none
           /\ ~input.initial_iso.none
           /\ input.initial_iso.v.halflife.fin)
    => ~IsOk(ret)

\* A backward activate was called on a zero-duration irradiation with
\* fluence n > 0 and barns > 0, for a stable initial Isotope and a quantity
\* of a radioactive activated isotope that exists at the stop time
ZeroDurationBackwardCall ==
  /\ call = "activate"
  /\ BackwardShape(input)
  /\ irr.duration = 0
  /\ Positive(irr.n_cm2.v)
  /\ input.barns > 0
  /\ ~input.initial_iso.v.halflife.fin
  /\ input.activated_iso_q.v.halflife.fin
  /\ IsOk(bq_at(input.activated_iso_q.v, irr.stop_time))

\* The forward activate on the initial quantity n0 returns a quantity at the
\* stop time whose activity there is that of the activated quantity
ForwardReproduces(n0) ==
  Bind(activate(irr, input.barns, Some(n0), None, None,
                Some(input.activated_iso_q.v.isotope)), LAMBDA a1 :
    /\ IsOk(a1)
    /\ a1.val.ref_date = irr.stop_time
    /\ bq_at(a1.val, irr.stop_time)
         = bq_at(input.activated_iso_q.v, irr.stop_time))

\* C12: on a zero-duration irradiation with n > 0 and sigma > 0, backward
\* activate on an activated quantity of activity A1 succeeds and returns an
\* initial quantity N0 at the stop time, and forward activate on that N0
\* returns an activated quantity at the stop time of activity A1 again.
C12_ZeroDurationRoundTrip ==
  ZeroDurationBackwardCall
    => /\ IsOk(ret)
       /\ ret.val.ref_date = irr.stop_time
       /\ ForwardReproduces(ret.val)

\* The four ways to write element token E with mass token X
WrittenForms(E, X) ==
  {E \o <<"-">> \o X, E \o X, X \o <<"-">> \o E, X \o E}

\* The four forms all fail, or all return one triple that starts with the
\* symbol of the element E names
SameParse(E, X) ==
  Bind({parse_isotope(s) : s \in WrittenForms(E, X)}, LAMBDA results :
    \/ \A r \in results : ~IsOk(r)
    \/ /\ Cardinality(results) = 1
       /\ \A r \in results :
            /\ IsOk(r)
            /\ IsOk(Element(PyStr(E)))
            /\ r.val[1] = Element(PyStr(E)).val.symbol)

\* C13: for every element token E and mass/isomer token X, the inputs
\* 'E-X', 'EX', 'X-E' and 'XE' of parse_isotope all fail or all return the
\* same triple, whose first component is the element's symbol.
C13_HyphenAndOrderIndependent ==
  call = "parse_isotope"
    => \A E \in ElemTokens \ {<<>>}, X \in MassTokens \ {<<>>} :
         input[1].s \in WrittenForms(E, X) => SameParse(E, X)

====
